---- MODULE Spec2Model ----
(***************************************************************************)
(* Model of xpander_handler.py: the module body (load_dotenv, the          *)
(* registration of my_agent_handler with on_task) and the coroutine        *)
(* my_agent_handler, run by the runtime for several tasks concurrently.    *)
(* A coroutine step runs from one await to the next; Backend, Agent, Task  *)
(* and BaseModel are collaborators whose outcomes (a value or an error)    *)
(* are chosen nondeterministically.                                        *)
(***************************************************************************)
EXTENDS Integers, Sequences, FiniteSets, TLC

\* Number of coroutine slots the runtime may have running at once.
NumInv == 2
\* Number of Task instances the runtime delivers.
NumTasks == 2

Invs == 1..NumInv
Tasks == 1..NumTasks

\* OutputFormat values a task may carry.
OutputFormats == {"Json", "Text"}
\* Opaque task.configuration values: each task carries its own (0: None).
Configs == Tasks

\* Python values that reach task.result: a str, a BaseModel with its fields
\* in declaration order, None, or the attribute never assigned.
Val(k, s, f) == [kind |-> k, str |-> s, fields |-> f]
Str(s) == Val("str", s, <<>>)
Model(f) == Val("model", "", f)
NoneVal == Val("none", "", <<>>)
Unset == Val("unset", "", <<>>)
Unbound == Val("unbound", "", <<>>)

\* result.content values an agent run may return.
Contents ==
    { Model(<< <<"answer", "42">> >>),
      Model(<< <<"answer", "42">>, <<"unit", "km">> >>),
      Str("not structured"),
      Str("{\"answer\":\"42\"}"),
      NoneVal }

\* isinstance(result.content, BaseModel)
IsBaseModel(c) == c.kind = "model"

RECURSIVE JoinFields(_)
JoinFields(fs) ==
    IF fs = <<>> THEN ""
    ELSE LET h == "\"" \o fs[1][1] \o "\":\"" \o fs[1][2] \o "\""
         IN IF Len(fs) = 1 THEN h ELSE h \o "," \o JoinFields(Tail(fs))

\* result.content.model_dump_json(): the compact JSON object of the fields.
model_dump_json(c) == Str("{" \o JoinFields(c.fields) \o "}")

\* Mutant: the structured branch is dropped, content is always stored raw.
ResultFor_raw(fmt, c) == c

\* Mutant: the output_format test is dropped, every BaseModel is serialized.
ResultFor_ignoreFormat(fmt, c) ==
    IF IsBaseModel(c) THEN model_dump_json(c) ELSE c

\* The value lines 17-20 assign to task.result.
ResultFor(fmt, c) ==
    IF fmt = "Json" /\ IsBaseModel(c) THEN model_dump_json(c) ELSE c

VARIABLES
    modpc,       \* position in the module body: "import", "loaded", "registered"
    envLoads,    \* number of load_dotenv() calls made
    tasks,       \* the Task instances: configuration, output_format, result
    pc,          \* per coroutine: "idle", "await_args", "await_run", "done", "raised"
    task,        \* per coroutine: the task parameter (0: none)
    backend,     \* per coroutine: local backend, the configuration it was built with
    agno_args,   \* per coroutine: local agno_args, the configuration they resolve
    agno_agent,  \* per coroutine: local agno_agent, the arguments it was built with
    result,      \* per coroutine: local result, its .content
    raised,      \* per coroutine: the exception that left the handler
    ret,         \* per coroutine: the returned task (0: nothing returned)
    log          \* per coroutine: the calls made so far, in order

vars == <<modpc, envLoads, tasks, pc, task, backend, agno_args, agno_agent,
          result, raised, ret, log>>

Ev(op) == [op |-> op, err |-> "None"]
Fail(op, e) == [op |-> op, err |-> e]

Init ==
    /\ modpc = "import"
    /\ envLoads = 0
    /\ \E fmt \in [Tasks -> OutputFormats] :
          tasks = [t \in Tasks |-> [configuration |-> t,
                                    output_format |-> fmt[t],
                                    result |-> Unset]]
    /\ pc = [i \in Invs |-> "idle"]
    /\ task = [i \in Invs |-> 0]
    /\ backend = [i \in Invs |-> 0]
    /\ agno_args = [i \in Invs |-> 0]
    /\ agno_agent = [i \in Invs |-> 0]
    /\ result = [i \in Invs |-> Unbound]
    /\ raised = [i \in Invs |-> "None"]
    /\ ret = [i \in Invs |-> 0]
    /\ log = [i \in Invs |-> <<>>]

\* Line 2: load_dotenv() at import time; its return value is ignored.
LoadDotenv ==
    /\ modpc = "import"
    /\ modpc' = "loaded"
    /\ envLoads' = envLoads + 1
    /\ UNCHANGED <<tasks, pc, task, backend, agno_args, agno_agent, result,
                   raised, ret, log>>

\* Mutant: the decorator is applied above the load_dotenv() call.
Register_early ==
    /\ modpc = "import"
    /\ modpc' = "registered"
    /\ UNCHANGED <<envLoads, tasks, pc, task, backend, agno_args, agno_agent,
                   result, raised, ret, log>>

\* Lines 5-10: the imports, then @on_task registers my_agent_handler.
Register ==
    /\ modpc = "loaded"
    /\ modpc' = "registered"
    /\ UNCHANGED <<envLoads, tasks, pc, task, backend, agno_args, agno_agent,
                   result, raised, ret, log>>

\* Mutant: the handler catches the error, stores it as the result and
\* raises an error of its own.
Raise_fallback(i, e, lg) ==
    /\ pc' = [pc EXCEPT ![i] = "raised"]
    /\ raised' = [raised EXCEPT ![i] = "HandlerError"]
    /\ log' = [log EXCEPT ![i] = lg \o <<Ev("assign")>>]
    /\ tasks' = [tasks EXCEPT ![task'[i]].result = Str(e)]
    /\ UNCHANGED ret

\* No try/except in the handler: an error raised by a call leaves the
\* coroutine as it is, nothing after the call runs.
Raise(i, e, lg) ==
    /\ pc' = [pc EXCEPT ![i] = "raised"]
    /\ raised' = [raised EXCEPT ![i] = e]
    /\ log' = [log EXCEPT ![i] = lg]
    /\ UNCHANGED <<tasks, ret>>

\* The runtime takes the lowest free coroutine slot for a new task.
FreeSlot(i) == pc[i] = "idle" /\ \A j \in Invs : j < i => pc[j] /= "idle"

\* Lines 10-12: the runtime calls the handler with a task it has not
\* delivered before; Backend(...) is built and aget_args is awaited.
Invoke(i, t) ==
    /\ modpc = "registered"
    /\ FreeSlot(i)
    /\ \A j \in Invs : task[j] /= t
    /\ task' = [task EXCEPT ![i] = t]
    /\ \E ok \in BOOLEAN :
        IF ok
        THEN /\ backend' = [backend EXCEPT ![i] = tasks[t].configuration]
             /\ pc' = [pc EXCEPT ![i] = "await_args"]
             /\ log' = [log EXCEPT ![i] = <<Ev("Backend"), Ev("aget_args")>>]
             /\ UNCHANGED <<raised, tasks, ret>>
        ELSE /\ UNCHANGED backend
             /\ Raise(i, "BackendError", <<Fail("Backend", "BackendError")>>)
    /\ UNCHANGED <<modpc, envLoads, agno_args, agno_agent, result>>

\* Count of the calls of op in a coroutine's log.
Count(lg, op) == Cardinality({k \in 1..Len(lg) : lg[k].op = op})

\* Mutant: a failed aget_args is tried once more before giving up.
ArgsResolved_retry(i) ==
    /\ pc[i] = "await_args"
    /\ UNCHANGED <<modpc, envLoads, task, backend, result>>
    /\ \E out \in {"ArgsError", "AgentError", "MessageError", "ok"} :
        LET lg1 == log[i] \o <<Ev("aget_args.done")>>
            lg2 == lg1 \o <<Ev("Agent")>>
            lg3 == lg2 \o <<Ev("to_message")>>
            args == backend[i]
        IN CASE out = "ArgsError" /\ Count(log[i], "aget_args") < 2 ->
                  /\ log' = [log EXCEPT ![i] =
                        log[i] \o <<Fail("aget_args.done", "ArgsError"),
                                    Ev("aget_args")>>]
                  /\ UNCHANGED <<agno_args, agno_agent, pc, raised, tasks, ret>>
             [] out = "ArgsError" /\ Count(log[i], "aget_args") >= 2 ->
                  /\ UNCHANGED <<agno_args, agno_agent>>
                  /\ Raise(i, "ArgsError",
                           log[i] \o <<Fail("aget_args.done", "ArgsError")>>)
             [] out = "AgentError" ->
                  /\ agno_args' = [agno_args EXCEPT ![i] = args]
                  /\ UNCHANGED agno_agent
                  /\ Raise(i, "AgentError",
                           lg1 \o <<Fail("Agent", "AgentError")>>)
             [] out = "MessageError" ->
                  /\ agno_args' = [agno_args EXCEPT ![i] = args]
                  /\ agno_agent' = [agno_agent EXCEPT ![i] = args]
                  /\ Raise(i, "MessageError",
                           lg2 \o <<Fail("to_message", "MessageError")>>)
             [] out = "ok" ->
                  /\ agno_args' = [agno_args EXCEPT ![i] = args]
                  /\ agno_agent' = [agno_agent EXCEPT ![i] = args]
                  /\ pc' = [pc EXCEPT ![i] = "await_run"]
                  /\ log' = [log EXCEPT ![i] = lg3 \o <<Ev("arun")>>]
                  /\ UNCHANGED <<raised, tasks, ret>>

\* Mutant: arun(...) is not awaited; the result is stored and the task
\* returned while the run is still pending.
ArgsResolved_noAwait(i) ==
    /\ pc[i] = "await_args"
    /\ UNCHANGED <<modpc, envLoads, task, backend>>
    /\ agno_args' = [agno_args EXCEPT ![i] = backend[i]]
    /\ agno_agent' = [agno_agent EXCEPT ![i] = backend[i]]
    /\ result' = [result EXCEPT ![i] = NoneVal]
    /\ tasks' = [tasks EXCEPT ![task[i]].result = NoneVal]
    /\ pc' = [pc EXCEPT ![i] = "done"]
    /\ ret' = [ret EXCEPT ![i] = task[i]]
    /\ log' = [log EXCEPT ![i] =
          log[i] \o <<Ev("aget_args.done"), Ev("Agent"), Ev("to_message"),
                      Ev("arun"), Ev("assign"), Ev("return")>>]
    /\ UNCHANGED raised

\* Lines 12-14: aget_args completes; Agent(**agno_args) is built, the task
\* is rendered with to_message() and arun is awaited. Each call may raise.
ArgsResolved(i) ==
    /\ pc[i] = "await_args"
    /\ UNCHANGED <<modpc, envLoads, task, backend, result>>
    /\ \E out \in {"ArgsError", "AgentError", "MessageError", "ok"} :
        LET lg1 == log[i] \o <<Ev("aget_args.done")>>
            lg2 == lg1 \o <<Ev("Agent")>>
            lg3 == lg2 \o <<Ev("to_message")>>
            args == backend[i]
        IN CASE out = "ArgsError" ->
                  /\ UNCHANGED <<agno_args, agno_agent>>
                  /\ Raise(i, "ArgsError",
                           log[i] \o <<Fail("aget_args.done", "ArgsError")>>)
             [] out = "AgentError" ->
                  /\ agno_args' = [agno_args EXCEPT ![i] = args]
                  /\ UNCHANGED agno_agent
                  /\ Raise(i, "AgentError",
                           lg1 \o <<Fail("Agent", "AgentError")>>)
             [] out = "MessageError" ->
                  /\ agno_args' = [agno_args EXCEPT ![i] = args]
                  /\ agno_agent' = [agno_agent EXCEPT ![i] = args]
                  /\ Raise(i, "MessageError",
                           lg2 \o <<Fail("to_message", "MessageError")>>)
             [] out = "ok" ->
                  /\ agno_args' = [agno_args EXCEPT ![i] = args]
                  /\ agno_agent' = [agno_agent EXCEPT ![i] = args]
                  /\ pc' = [pc EXCEPT ![i] = "await_run"]
                  /\ log' = [log EXCEPT ![i] = lg3 \o <<Ev("arun")>>]
                  /\ UNCHANGED <<raised, tasks, ret>>

\* Mutant: the else branch is missing, raw content is never stored.
Complete_noElse(i, c, dumps) ==
    LET t == task[i]
        fmt == tasks[t].output_format
    IN IF fmt = "Json" /\ IsBaseModel(c)
       THEN /\ tasks' = [tasks EXCEPT ![t].result = ResultFor(fmt, c)]
            /\ log' = [log EXCEPT ![i] =
                  log[i] \o <<Ev("arun.done"), Ev("model_dump_json"),
                              Ev("assign"), Ev("return")>>]
            /\ pc' = [pc EXCEPT ![i] = "done"]
            /\ ret' = [ret EXCEPT ![i] = t]
            /\ UNCHANGED raised
       ELSE /\ log' = [log EXCEPT ![i] =
                  log[i] \o <<Ev("arun.done"), Ev("return")>>]
            /\ pc' = [pc EXCEPT ![i] = "done"]
            /\ ret' = [ret EXCEPT ![i] = t]
            /\ UNCHANGED <<tasks, raised>>

\* Mutant: the handler normalises the task's output_format and has no
\* return statement.
Complete_touch(i, c, dumps) ==
    LET t == task[i]
        fmt == tasks[t].output_format
    IN /\ tasks' = [tasks EXCEPT ![t].result = ResultFor(fmt, c),
                                 ![t].output_format = "Text"]
       /\ log' = [log EXCEPT ![i] =
             log[i] \o <<Ev("arun.done"), Ev("assign"), Ev("return")>>]
       /\ pc' = [pc EXCEPT ![i] = "done"]
       /\ UNCHANGED <<ret, raised>>

\* Mutant: the task being handled is kept in one module-level variable that
\* the latest invocation overwrites.
Complete_global(i, c, dumps) ==
    LET t == CHOOSE u \in Tasks :
                 /\ \E j \in Invs : task[j] = u
                 /\ \A j \in Invs : task[j] <= u
        fmt == tasks[t].output_format
    IN /\ tasks' = [tasks EXCEPT ![t].result = ResultFor(fmt, c)]
       /\ log' = [log EXCEPT ![i] =
             log[i] \o <<Ev("arun.done"), Ev("assign"), Ev("return")>>]
       /\ pc' = [pc EXCEPT ![i] = "done"]
       /\ ret' = [ret EXCEPT ![i] = t]
       /\ UNCHANGED raised

\* Lines 17-21 for content c: the branch, the assignment of task.result and
\* the return. dumps tells whether model_dump_json() returns or raises.
Complete(i, c, dumps) ==
    LET t == task[i]
        fmt == tasks[t].output_format
        lg == log[i] \o <<Ev("arun.done")>>
    IN IF fmt = "Json" /\ IsBaseModel(c)
       THEN IF dumps
            THEN /\ tasks' = [tasks EXCEPT ![t].result = ResultFor(fmt, c)]
                 /\ log' = [log EXCEPT ![i] =
                       lg \o <<Ev("model_dump_json"), Ev("assign"),
                               Ev("return")>>]
                 /\ pc' = [pc EXCEPT ![i] = "done"]
                 /\ ret' = [ret EXCEPT ![i] = t]
                 /\ UNCHANGED raised
            ELSE Raise(i, "SerializationError",
                       lg \o <<Fail("model_dump_json", "SerializationError")>>)
       ELSE /\ tasks' = [tasks EXCEPT ![t].result = ResultFor(fmt, c)]
            /\ log' = [log EXCEPT ![i] = lg \o <<Ev("assign"), Ev("return")>>]
            /\ pc' = [pc EXCEPT ![i] = "done"]
            /\ ret' = [ret EXCEPT ![i] = t]
            /\ UNCHANGED raised

\* Mutant: the serialization is awaited, a third suspension between the
\* inspection of the content and the assignment.
RunDone_split(i) ==
    /\ pc[i] \in {"await_run", "await_dump"}
    /\ UNCHANGED <<modpc, envLoads, task, backend, agno_args, agno_agent>>
    /\ IF pc[i] = "await_run"
       THEN \E c \in Contents :
              /\ result' = [result EXCEPT ![i] = c]
              /\ pc' = [pc EXCEPT ![i] = "await_dump"]
              /\ log' = [log EXCEPT ![i] = log[i] \o <<Ev("arun.done")>>]
              /\ UNCHANGED <<tasks, raised, ret>>
       ELSE /\ UNCHANGED <<result, raised>>
            /\ tasks' = [tasks EXCEPT ![task[i]].result =
                  ResultFor(tasks[task[i]].output_format, result[i])]
            /\ log' = [log EXCEPT ![i] = log[i] \o <<Ev("assign"), Ev("return")>>]
            /\ pc' = [pc EXCEPT ![i] = "done"]
            /\ ret' = [ret EXCEPT ![i] = task[i]]

\* Lines 14-21: arun completes with a result or raises; on a result the
\* handler runs to its return without another suspension.
RunDone(i) ==
    /\ pc[i] = "await_run"
    /\ UNCHANGED <<modpc, envLoads, task, backend, agno_args, agno_agent>>
    /\ \/ /\ UNCHANGED result
          /\ Raise(i, "RunError", log[i] \o <<Fail("arun.done", "RunError")>>)
       \/ \E c \in Contents, dumps \in BOOLEAN :
            /\ result' = [result EXCEPT ![i] = c]
            /\ Complete(i, c, dumps)

Next ==
    \/ LoadDotenv
    \/ Register
    \/ \E i \in Invs, t \in Tasks : Invoke(i, t)
    \/ \E i \in Invs : ArgsResolved(i)
    \/ \E i \in Invs : RunDone(i)

Spec == Init /\ [][Next]_vars

Last(lg) == lg[Len(lg)]
Done(i) == pc[i] = "done"
Fmt(i) == tasks[task[i]].output_format
\* The result of the task an invocation handles (Unset for a free slot).
TaskResult(i) == IF task[i] = 0 THEN Unset ELSE tasks[task[i]].result
Structured(i) == Fmt(i) = "Json" /\ IsBaseModel(result[i])

\* C1: whenever the handler has returned for a task whose output_format is
\* Json and whose agent content is a BaseModel, task.result is the
\* model_dump_json() string of that content.
C1_JsonModelSerialized ==
    \A i \in Invs :
        Done(i) /\ Structured(i) => TaskResult(i) = model_dump_json(result[i])

C1_Witness ==
    \E i \in Invs :
        /\ Done(i) /\ Structured(i)
        /\ TaskResult(i) = Str("{\"answer\":\"42\",\"unit\":\"km\"}")

\* C2: whenever the handler has returned for a task whose output_format is
\* not Json or whose content is not a BaseModel, task.result is the content
\* itself and model_dump_json was never called.
C2_RawOtherwise ==
    \A i \in Invs :
        Done(i) /\ ~Structured(i) =>
            /\ TaskResult(i) = result[i]
            /\ Count(log[i], "model_dump_json") = 0

C2_Witness ==
    \E i, j \in Invs :
        /\ Done(i) /\ Fmt(i) = "Json" /\ TaskResult(i) = Str("not structured")
        /\ Done(j) /\ Fmt(j) = "Text" /\ IsBaseModel(TaskResult(j))

\* C3: whenever a collaborator call of an invocation raised, that call is
\* the last thing the invocation did, the handler raised that very error,
\* task.result was never assigned and nothing was returned.
C3_ErrorPropagates ==
    \A i \in Invs :
        /\ \A k \in 1..Len(log[i]) :
              log[i][k].err /= "None" =>
                  /\ k = Len(log[i])
                  /\ pc[i] = "raised"
                  /\ raised[i] = log[i][k].err
        /\ pc[i] = "raised" =>
              /\ Len(log[i]) > 0
              /\ Last(log[i]).err /= "None"
              /\ raised[i] = Last(log[i]).err
              /\ Count(log[i], "assign") = 0
              /\ TaskResult(i) = Unset
              /\ ret[i] = 0

C3_Witness ==
    \E i, j \in Invs :
        /\ pc[i] = "raised" /\ raised[i] = "SerializationError"
        /\ result[i] /= Unbound /\ TaskResult(i) = Unset
        /\ pc[j] = "raised" /\ raised[j] = "BackendError"

\* C4: an invocation assigns task.result at most once, and one that has
\* returned assigned it exactly once, to the serialized or the raw content.
C4_AssignedOnce ==
    \A i \in Invs :
        /\ Count(log[i], "assign") <= 1
        /\ Done(i) =>
              /\ Count(log[i], "assign") = 1
              /\ TaskResult(i) /= Unset
              /\ TaskResult(i) \in {result[i], model_dump_json(result[i])}

C4_Witness ==
    \E i \in Invs :
        Done(i) /\ result[i] = NoneVal /\ TaskResult(i) = NoneVal

\* C5: every step leaves every task's configuration and output_format as
\* they were, changes a task's result only as the completing step of the
\* invocation handling that task, keeps each invocation's task parameter,
\* and an invocation that has returned returned its own task.
C5_Frame ==
    [][ /\ \A t \in Tasks :
             /\ tasks'[t].configuration = tasks[t].configuration
             /\ tasks'[t].output_format = tasks[t].output_format
             /\ tasks'[t].result /= tasks[t].result =>
                   \E i \in Invs : /\ task[i] = t
                                   /\ pc[i] = "await_run"
                                   /\ pc'[i] = "done"
        /\ \A i \in Invs :
             /\ task[i] /= 0 => task'[i] = task[i]
             /\ pc'[i] = "done" => ret'[i] = task'[i]
      ]_vars

C5_Witness ==
    \E i \in Invs :
        /\ Done(i) /\ ret[i] = task[i] /\ TaskResult(i) /= Unset
        /\ tasks[task[i]].configuration = task[i]

\* Every b in lg has a successful a earlier in lg.
Before(lg, a, b) ==
    \A k \in 1..Len(lg) :
        lg[k].op = b => \E m \in 1..(k - 1) : lg[m] = Ev(a)

\* C6: in every invocation the agent is constructed only after argument
\* resolution has completed, the run is started only after the agent is
\* constructed, and task.result is assigned only after the run has completed.
C6_StepOrder ==
    \A i \in Invs :
        /\ Before(log[i], "aget_args", "aget_args.done")
        /\ Before(log[i], "aget_args.done", "Agent")
        /\ Before(log[i], "Agent", "arun")
        /\ Before(log[i], "arun", "arun.done")
        /\ Before(log[i], "arun.done", "assign")
        /\ agno_agent[i] /= 0 => agno_args[i] /= 0
        /\ result[i] /= Unbound => agno_agent[i] /= 0
        /\ TaskResult(i) /= Unset => result[i] /= Unbound

C6_Witness ==
    \E i \in Invs :
        log[i] = <<Ev("Backend"), Ev("aget_args"), Ev("aget_args.done"),
                   Ev("Agent"), Ev("to_message"), Ev("arun"), Ev("arun.done"),
                   Ev("model_dump_json"), Ev("assign"), Ev("return")>>

\* C7: an invocation that has started and not finished is suspended either
\* in the await of aget_args or in the await of arun, and once the content
\* of the run is known the invocation has already returned or raised.
C7_TwoSuspensions ==
    \A i \in Invs :
        /\ pc[i] \in {"idle", "await_args", "await_run", "done", "raised"}
        /\ pc[i] = "idle" <=> log[i] = <<>>
        /\ pc[i] = "await_args" <=> (log[i] /= <<>> /\ Last(log[i]) = Ev("aget_args"))
        /\ pc[i] = "await_run" <=> (log[i] /= <<>> /\ Last(log[i]) = Ev("arun"))
        /\ result[i] /= Unbound => pc[i] \in {"done", "raised"}
        /\ Count(log[i], "arun.done") > 0 => pc[i] \in {"done", "raised"}

C7_Witness ==
    \E i, j \in Invs :
        /\ pc[i] = "await_args" /\ pc[j] = "await_run"
        /\ TaskResult(i) = Unset /\ TaskResult(j) = Unset

Calls == {"Backend", "aget_args", "Agent", "to_message", "arun",
          "model_dump_json", "assign", "return"}

\* C8: an invocation calls each collaborator operation at most once, and
\* after a call of it failed it makes no further call and writes no result.
C8_NoRetry ==
    \A i \in Invs :
        /\ \A op \in Calls : Count(log[i], op) <= 1
        /\ \A k \in 1..Len(log[i]) :
              log[i][k].err /= "None" =>
                  /\ \A m \in 1..Len(log[i]) : m <= k
                  /\ TaskResult(i) = Unset

C8_Witness ==
    \E i, j \in Invs :
        /\ raised[i] = "ArgsError" /\ Count(log[i], "aget_args") = 1
        /\ raised[j] = "RunError" /\ Count(log[j], "arun") = 1

\* C9: load_dotenv has run exactly once whenever the handler is registered
\* or any invocation has started, and it never runs more than once.
C9_EnvOnce ==
    /\ envLoads <= 1
    /\ modpc = "registered" => envLoads = 1
    /\ (\E i \in Invs : pc[i] /= "idle") => envLoads = 1 /\ modpc = "registered"

C9_Witness ==
    \E i, j \in Invs :
        /\ i /= j /\ Done(i) /\ pc[j] = "await_args"
        /\ envLoads = 1

\* C10: in every interleaving, each task is handled by at most one
\* invocation, whose backend, arguments and agent come from that task's
\* configuration, and the task's result is the value its own output_format
\* and its own run's content give once that invocation has returned, and is
\* unset until then.
C10_NoInterference ==
    \A t \in Tasks :
        LET H == {i \in Invs : task[i] = t}
        IN /\ Cardinality(H) <= 1
           /\ H = {} => tasks[t].result = Unset
           /\ \A i \in H :
                /\ backend[i] \in {0, tasks[t].configuration}
                /\ agno_args[i] \in {0, tasks[t].configuration}
                /\ agno_agent[i] \in {0, tasks[t].configuration}
                /\ tasks[t].result =
                      IF Done(i)
                      THEN ResultFor(tasks[t].output_format, result[i])
                      ELSE Unset

C10_Witness ==
    \E i, j \in Invs :
        /\ i < j /\ Done(i) /\ Done(j)
        /\ Fmt(i) = "Text" /\ Fmt(j) = "Json"
        /\ result[i] = result[j] /\ IsBaseModel(result[i])
        /\ TaskResult(i) /= TaskResult(j)
        /\ backend[i] /= backend[j]

====
